---- MODULE Spec2Model ----
(***************************************************************************)
(* GruenderAI adaptive measurement engine.                                 *)
(*                                                                         *)
(* Three independent implementations live in the repository:               *)
(*   - IntegratedGruenderAI   (integrated_assessment_system.py)            *)
(*   - GruenderAIEngine       (pure_python_irt.py)                         *)
(*   - IRTCATEngine + AssessmentSession (irt_cat_engine.py,                *)
(*                                       assessment_session.py)            *)
(* Each is started by its own script, so a behaviour runs one of them.     *)
(*                                                                         *)
(* Real numbers are fixed-point integers with four decimals                *)
(* (1.0 is Scale); math.exp, math.log and math.sqrt are computed in that   *)
(* arithmetic.                                                             *)
(***************************************************************************)
EXTENDS Integers, Sequences, FiniteSets, TLC

(***************************************************************************)
(* Fixed-point arithmetic                                                  *)
(***************************************************************************)
Scale == 100 * 100

Abs(x) == IF x < 0 THEN -x ELSE x
Max(x, y) == IF x >= y THEN x ELSE y
Min(x, y) == IF x <= y THEN x ELSE y

\* a / b rounded to the nearest integer (b > 0)
RoundDiv(a, b) == (2 * a + b) \div (2 * b)

\* the product of two fixed-point numbers, rounded to the nearest
Mul(a, b) == a * (b \div Scale) + RoundDiv(a * (b % Scale), Scale)

\* e^-i, e^-(d/10), e^-(d/100), e^-(d/1000), e^-(d/10000), digit by digit
ExpInt == <<10000, 3679, 1353, 498, 183, 67, 25, 9, 3, 1>>
ExpD1 == <<10000, 9048, 8187, 7408, 6703, 6065, 5488, 4966, 4493, 4066>>
ExpD2 == <<10000, 9900, 9802, 9704, 9608, 9512, 9418, 9324, 9231, 9139>>
ExpD3 == <<10000, 9990, 9980, 9970, 9960, 9950, 9940, 9930, 9920, 9910>>
ExpD4 == <<10000, 9999, 9998, 9997, 9996, 9995, 9994, 9993, 9992, 9991>>

\* math.exp(-x) for a fixed-point x >= 0
ExpNeg(x) ==
    IF x >= 10 * Scale THEN 0
    ELSE LET frac == Mul(Mul(ExpD1[((x \div 1000) % 10) + 1],
                             ExpD2[((x \div 100) % 10) + 1]),
                         Mul(ExpD3[((x \div 10) % 10) + 1],
                             ExpD4[(x % 10) + 1]))
         IN  Mul(ExpInt[(x \div Scale) + 1], frac)

\* 1 / (1 + math.exp(-z)) for a fixed-point z
Logistic(z) ==
    IF z >= 0
    THEN RoundDiv(Scale * Scale, Scale + ExpNeg(z))
    ELSE LET e == ExpNeg(-z) IN RoundDiv(Scale * e, Scale + e)

\* math.log(p) for a fixed-point p in (0, 1]: p = m / 2^k with m in
\* (1/2, 1], log(m) = 2 * atanh((m - 1) / (m + 1)) by its series
RECURSIVE LnLoop(_, _)
LnLoop(m, k) ==
    IF 2 * m <= Scale THEN LnLoop(2 * m, k + 1)
    ELSE LET u == RoundDiv((m - Scale) * Scale, m + Scale)
             u2 == Mul(u, u)
             u3 == Mul(u2, u)
             u5 == Mul(u3, u2)
             u7 == Mul(u5, u2)
         IN  2 * (u + RoundDiv(u3, 3) + RoundDiv(u5, 5) + RoundDiv(u7, 7))
             - k * 6931

Ln(p) == LnLoop(p, 0)

\* the integer square root
RECURSIVE ISqrtLoop(_, _, _)
ISqrtLoop(n, lo, hi) ==
    IF lo >= hi THEN lo
    ELSE LET mid == (lo + hi + 1) \div 2
         IN  IF mid * mid <= n THEN ISqrtLoop(n, mid, hi)
             ELSE ISqrtLoop(n, lo, mid - 1)

\* math.sqrt(v) for a fixed-point v in [0, 20]
Sqrt(v) == ISqrtLoop(v * Scale, 0, 46340)

(***************************************************************************)
(* State                                                                   *)
(***************************************************************************)
VARIABLES
    program,              \* which script this process runs
    assessment_sessions,  \* IntegratedGruenderAI.assessment_sessions
    session_analytics,    \* IntegratedGruenderAI.session_analytics
    uuid_pool,            \* the ids uuid.uuid4() has not handed out yet
    engine,               \* a CAT loop over GruenderAIEngine: its caller's data
    assessment_session,   \* the AssessmentSession object
    args,                 \* the arguments of the last direct engine call
    result                \* what the last call returned

vars == <<program, assessment_sessions, session_analytics, uuid_pool,
          engine, assessment_session, args, result>>

\* what a call returned: the operation, the kind of value, and the value
\* (an id or message in value, a fixed-point number in number)
Returned(op, kind, value, number) ==
    [op |-> op, kind |-> kind, value |-> value, number |-> number]

(***************************************************************************)
(* IntegratedGruenderAI: static tables                                     *)
(***************************************************************************)
item_bank == <<
    [item_id |-> "risk_001", dimension |-> "risk_taking",
     discrimination |-> 12000, difficulty |-> 5000,
     business_context |-> "general",
     interaction_target |-> "risk_achievement_friction"],
    [item_id |-> "autonomy_001", dimension |-> "autonomy_orientation",
     discrimination |-> 14000, difficulty |-> 0,
     business_context |-> "general",
     interaction_target |-> "autonomy_self_efficacy_friction"],
    [item_id |-> "efficacy_001", dimension |-> "self_efficacy",
     discrimination |-> 13000, difficulty |-> -2000,
     business_context |-> "general",
     interaction_target |-> "autonomy_self_efficacy_friction"],
    [item_id |-> "innovation_001", dimension |-> "innovativeness",
     discrimination |-> 11000, difficulty |-> 3000,
     business_context |-> "fintech",
     interaction_target |-> "innovation_autonomy_synergy"],
    [item_id |-> "achievement_001", dimension |-> "achievement_orientation",
     discrimination |-> 10000, difficulty |-> 1000,
     business_context |-> "general",
     interaction_target |-> "risk_achievement_friction"],
    [item_id |-> "proactive_001", dimension |-> "proactiveness",
     discrimination |-> 13000, difficulty |-> 7000,
     business_context |-> "ecommerce",
     interaction_target |-> "proactiveness_efficacy_friction"],
    [item_id |-> "competitive_001", dimension |-> "competitive_aggressiveness",
     discrimination |-> 12000, difficulty |-> 4000,
     business_context |-> "general",
     interaction_target |-> "innovation_competition_friction"] >>

dimensions == <<"risk_taking", "innovativeness", "self_efficacy",
                "achievement_orientation", "proactiveness",
                "autonomy_orientation", "competitive_aggressiveness">>

Range(s) == {s[i] : i \in DOMAIN s}

DimensionSet == Range(dimensions)
ItemIds == {item_bank[i].item_id : i \in DOMAIN item_bank}

trait_weights == [
    fintech |-> [risk_taking |-> 8500, innovativeness |-> 8000,
                 self_efficacy |-> 7500, achievement_orientation |-> 7000,
                 proactiveness |-> 6500, autonomy_orientation |-> 4500,
                 competitive_aggressiveness |-> 5500],
    consulting |-> [risk_taking |-> 3500, innovativeness |-> 5000,
                 self_efficacy |-> 8000, achievement_orientation |-> 7500,
                 proactiveness |-> 7000, autonomy_orientation |-> 8500,
                 competitive_aggressiveness |-> 6000],
    restaurant |-> [risk_taking |-> 6000, innovativeness |-> 4500,
                 self_efficacy |-> 7000, achievement_orientation |-> 6500,
                 proactiveness |-> 5500, autonomy_orientation |-> 7500,
                 competitive_aggressiveness |-> 5000],
    ecommerce |-> [risk_taking |-> 7000, innovativeness |-> 7500,
                 self_efficacy |-> 6500, achievement_orientation |-> 8000,
                 proactiveness |-> 8500, autonomy_orientation |-> 6000,
                 competitive_aggressiveness |-> 7500] ]

\* conditions: <<trait, operator, threshold>>, in dict order
friction_patterns == [
    autonomy_self_efficacy_friction |->
        [traits |-> <<"autonomy_orientation", "self_efficacy">>,
         conditions |-> << <<"autonomy_orientation", ">=", 6000>>,
                           <<"self_efficacy", "<=", -5000>> >>,
         severity_multiplier |-> 8000],
    risk_achievement_friction |->
        [traits |-> <<"risk_taking", "achievement_orientation">>,
         conditions |-> << <<"risk_taking", ">=", 5000>>,
                           <<"achievement_orientation", "<=", -3000>> >>,
         severity_multiplier |-> 7000],
    innovation_autonomy_synergy |->
        [traits |-> <<"innovativeness", "autonomy_orientation">>,
         conditions |-> << <<"innovativeness", ">=", 4000>>,
                           <<"autonomy_orientation", ">=", 4000>> >>,
         severity_multiplier |-> -6000] ]

\* friction_patterns.items() iterates in insertion order
friction_pattern_ids == <<"autonomy_self_efficacy_friction",
                          "risk_achievement_friction",
                          "innovation_autonomy_synergy">>

(***************************************************************************)
(* IntegratedGruenderAI: item selection                                    *)
(***************************************************************************)
None == [item_id |-> "None"]

\* calculate_fisher_information(theta, item)
calculate_fisher_information(theta, item) ==
    LET prob == Logistic(Mul(item.discrimination, theta - item.difficulty))
    IN  Mul(Mul(item.discrimination, item.discrimination),
            Mul(prob, Scale - prob))

RECURSIVE SumUncertainty(_, _, _)
SumUncertainty(theta_estimates, traits, i) ==
    IF i > Len(traits) THEN 0
    ELSE (Scale - Min(Scale, RoundDiv(Abs(theta_estimates[traits[i]]), 2)))
         + SumUncertainty(theta_estimates, traits, i + 1)

\* assess_interaction_information_need(theta_estimates, interaction_target)
assess_interaction_information_need(theta_estimates, interaction_target) ==
    IF interaction_target \notin DOMAIN friction_patterns THEN 0
    ELSE LET involved_traits == friction_patterns[interaction_target].traits
         IN  RoundDiv(SumUncertainty(theta_estimates, involved_traits, 1),
                      Len(involved_traits))

\* the score get_next_item gives one candidate (weighted information,
\* interaction bonus, business context bonus)
total_information(session, item) ==
    LET current_theta == session.theta_estimates[item.dimension]
        fisher_info == calculate_fisher_information(current_theta, item)
        context_weight == trait_weights[session.business_context][item.dimension]
        weighted_info == Mul(fisher_info, context_weight)
        interaction_bonus ==
            Mul(assess_interaction_information_need(session.theta_estimates,
                                                    item.interaction_target),
                3000)
        context_bonus ==
            IF item.business_context = session.business_context
            THEN 2000 ELSE 0
    IN  weighted_info + interaction_bonus + context_bonus

\* the loop of get_next_item over available_items: a later candidate
\* replaces the best one only when strictly better
RECURSIVE SelectLoop(_, _, _, _, _)
SelectLoop(session, available_items, i, best_item, max_information) ==
    IF i > Len(available_items) THEN best_item
    ELSE LET t == total_information(session, available_items[i])
         IN  IF t > max_information
             THEN SelectLoop(session, available_items, i + 1,
                             available_items[i], t)
             ELSE SelectLoop(session, available_items, i + 1,
                             best_item, max_information)

\* a selection that forgets to leave out the administered items
AvailableItems_unfiltered(session) == item_bank

\* item_bank without the administered items, in bank order
AvailableItems(session) ==
    SelectSeq(item_bank,
              LAMBDA item : item.item_id \notin Range(session.administered_items))

(***************************************************************************)
(* IntegratedGruenderAI: stopping rule                                     *)
(***************************************************************************)
\* a stopping rule whose ceiling test is off by one (> for >=)
should_stop_assessment_strict_ceiling(session) ==
    IF session.current_item > session.max_items
    THEN [stop |-> TRUE, completion_reason |-> "max_items_reached"]
    ELSE
    LET context_weights == trait_weights[session.business_context]
        important == {d \in DimensionSet : context_weights[d] >= 6500}
        required_se(d) ==
            Mul(session.target_se,
                IF context_weights[d] >= 8000 THEN 8000 ELSE 9000)
        ready == {d \in important : session.se_estimates[d] <= required_se(d)}
    IN  IF /\ Cardinality(important) > 0
           /\ 10 * Cardinality(ready) >= 8 * Cardinality(important)
        THEN [stop |-> TRUE, completion_reason |-> "precision_criteria_met"]
        ELSE [stop |-> FALSE, completion_reason |-> session.completion_reason]

\* should_stop_assessment(session): the decision and the completion_reason
\* it leaves in the session
should_stop_assessment(session) ==
    IF session.current_item >= session.max_items
    THEN [stop |-> TRUE, completion_reason |-> "max_items_reached"]
    ELSE
    LET context_weights == trait_weights[session.business_context]
        important == {d \in DimensionSet : context_weights[d] >= 6500}
        required_se(d) ==
            Mul(session.target_se,
                IF context_weights[d] >= 8000 THEN 8000 ELSE 9000)
        ready == {d \in important : session.se_estimates[d] <= required_se(d)}
    IN  IF /\ Cardinality(important) > 0
           /\ 10 * Cardinality(ready) >= 8 * Cardinality(important)
        THEN [stop |-> TRUE, completion_reason |-> "precision_criteria_met"]
        ELSE IF session.current_item < 8
        THEN [stop |-> FALSE, completion_reason |-> session.completion_reason]
        ELSE [stop |-> FALSE, completion_reason |-> session.completion_reason]

(***************************************************************************)
(* IntegratedGruenderAI: friction monitoring                               *)
(***************************************************************************)
ConditionHolds(theta_estimates, condition) ==
    LET trait_theta == theta_estimates[condition[1]]
    IN  IF condition[2] = ">=" THEN trait_theta >= condition[3]
        ELSE trait_theta <= condition[3]

RECURSIVE MonitorLoop(_, _, _)
MonitorLoop(theta_estimates, detected_frictions, i) ==
    IF i > Len(friction_pattern_ids) THEN detected_frictions
    ELSE LET pattern_id == friction_pattern_ids[i]
             conditions == friction_patterns[pattern_id].conditions
             friction_detected ==
                 \A c \in DOMAIN conditions :
                     ConditionHolds(theta_estimates, conditions[c])
         IN  IF friction_detected /\ pattern_id \notin Range(detected_frictions)
             THEN MonitorLoop(theta_estimates,
                              Append(detected_frictions, pattern_id), i + 1)
             ELSE MonitorLoop(theta_estimates, detected_frictions, i + 1)

\* monitor_real_time_friction(session): the new detected_frictions
monitor_real_time_friction(session) ==
    IF Len(session.responses) < 3 THEN session.detected_frictions
    ELSE MonitorLoop(session.theta_estimates, session.detected_frictions, 1)

(***************************************************************************)
(* IntegratedGruenderAI: estimate update                                   *)
(***************************************************************************)
\* an update that shrinks the standard error of every dimension
update_theta_estimate_every_se(session, item, response) ==
    LET dimension == item.dimension
        binary_response == IF response >= 4 THEN 1 ELSE 0
        current_theta == session.theta_estimates[dimension]
        expected == Logistic(Mul(item.discrimination,
                                 current_theta - item.difficulty))
        error == binary_response * Scale - expected
        new_theta == Max(-3 * Scale,
                         Min(3 * Scale, current_theta + Mul(3000, error)))
    IN  [session EXCEPT
            !.theta_estimates[dimension] = new_theta,
            !.se_estimates = [dim \in DOMAIN @ |-> Mul(@[dim], 9000)]]

\* update_theta_estimate(session, item, response): the session afterwards
update_theta_estimate(session, item, response) ==
    LET dimension == item.dimension
        binary_response == IF response >= 4 THEN 1 ELSE 0
        current_theta == session.theta_estimates[dimension]
        expected == Logistic(Mul(item.discrimination,
                                 current_theta - item.difficulty))
        error == binary_response * Scale - expected
        new_theta == Max(-3 * Scale,
                         Min(3 * Scale, current_theta + Mul(3000, error)))
    IN  [session EXCEPT
            !.theta_estimates[dimension] = new_theta,
            !.se_estimates[dimension] = Mul(@, 9000)]

(***************************************************************************)
(* IntegratedGruenderAI: completion                                        *)
(***************************************************************************)
\* get_context_advantages(context, theta_scores): the traits it lists
get_context_advantages(context, theta_scores) ==
    {trait \in DimensionSet :
        /\ RoundDiv(theta_scores[trait] + 3 * Scale, 6) >= 6000
        /\ trait_weights[context][trait] >= 7000}

\* generate_comprehensive_analysis raises ValueError when
\* get_context_advantages sorts a non-empty list: its sort key is
\* float("0.85 weight")
AnalysisRaises(session) ==
    \E context \in DOMAIN trait_weights :
        get_context_advantages(context, session.theta_estimates) # {}

\* complete_assessment on a known session: is_complete is set before the
\* analysis is generated
CompletedSession(session) ==
    [session EXCEPT !.is_complete = TRUE,
                    !.final_analysis = @ \/ ~AnalysisRaises(session)]

CompletionResult(op, session) ==
    IF AnalysisRaises(session)
    THEN Returned(op, "exception", "ValueError", 0)
    ELSE Returned(op, "analysis", "assessment_complete", 0)

(***************************************************************************)
(* IRTCATEngine (irt_cat_engine.py) and its item bank (sample_items.py)    *)
(***************************************************************************)
PersonalityItem(item_id, dimension, discrimination, difficulty_thresholds) ==
    [item_id |-> item_id, dimension |-> dimension,
     discrimination |-> discrimination,
     difficulty_thresholds |-> difficulty_thresholds]

create_sample_item_bank == <<
    PersonalityItem("INNOV_001", "innovativeness", 14000,
                    <<-12000, -3000, 4000, 13000>>),
    PersonalityItem("INNOV_002", "innovativeness", 16000,
                    <<-8000, 0, 8000, 16000>>),
    PersonalityItem("RISK_001", "risk_taking", 13000,
                    <<-10000, -2000, 6000, 14000>>),
    PersonalityItem("RISK_002", "risk_taking", 15000,
                    <<-5000, 3000, 10000, 18000>>),
    PersonalityItem("ACHV_001", "achievement_orientation", 12000,
                    <<-15000, -5000, 3000, 12000>>),
    PersonalityItem("ACHV_002", "achievement_orientation", 14000,
                    <<-8000, 0, 8000, 15000>>),
    PersonalityItem("AUTO_001", "autonomy_orientation", 13000,
                    <<-13000, -4000, 4000, 11000>>),
    PersonalityItem("PROACT_001", "proactiveness", 15000,
                    <<-9000, -1000, 7000, 14000>>),
    PersonalityItem("LOC_001", "locus_of_control", 11000,
                    <<-18000, -8000, 2000, 10000>>),
    PersonalityItem("SELF_001", "self_efficacy", 12000,
                    <<-14000, -6000, 3000, 13000>>) >>

\* the logistic value of one threshold, with the overflow guard
IrtCumulative(exp_val) ==
    IF exp_val > 500 * Scale THEN Scale
    ELSE IF exp_val < -500 * Scale THEN 0
    ELSE Logistic(exp_val)

\* cumulative_probs of IRTCATEngine.grm_probability
IrtCumulativeProbs(theta, item) ==
    <<0>> \o [j \in DOMAIN item.difficulty_thresholds |->
                 IrtCumulative(Mul(item.discrimination,
                                   theta - item.difficulty_thresholds[j]))]
          \o <<Scale>>

\* IRTCATEngine.grm_probability(theta, item, response)
irt_grm_probability(theta, item, response) ==
    LET cumulative_probs == IrtCumulativeProbs(theta, item)
        response_index == response - 1
    IN  IF response_index < 0 \/ response_index >= Len(cumulative_probs) - 1
        THEN [kind |-> "value", value |-> 10]
        ELSE [kind |-> "value",
              value |-> Max(cumulative_probs[response_index + 2]
                            - cumulative_probs[response_index + 1], 10)]

RECURSIVE IrtInfoLoop(_, _, _)
IrtInfoLoop(theta, item, j) ==
    IF j > Len(item.difficulty_thresholds) THEN 0
    ELSE LET a == item.discrimination
             exp_val == Mul(a, theta - item.difficulty_thresholds[j])
             p == Logistic(exp_val)
         IN  (IF -500 * Scale < exp_val /\ exp_val < 500 * Scale
              THEN Mul(Mul(a, a), Mul(p, Scale - p)) ELSE 0)
             + IrtInfoLoop(theta, item, j + 1)

\* IRTCATEngine.fisher_information(theta, item)
irt_fisher_information(theta, item) == IrtInfoLoop(theta, item, 1)

\* an update that leaves out the np.clip to [-3, 3]
update_theta_unclamped(current_theta, item, response) ==
    LET new_theta ==
            IF response >= 4 THEN current_theta + 2000
            ELSE IF response <= 2 THEN current_theta - 2000
            ELSE current_theta + Mul(1000, (response - 3) * Scale)
        fisher_info == irt_fisher_information(new_theta, item)
        se == IF fisher_info > 0
              THEN RoundDiv(Scale * Scale, Sqrt(fisher_info)) ELSE Scale
    IN  [theta |-> new_theta, se |-> se]

\* IRTCATEngine.update_theta(current_theta, item, response)
update_theta(current_theta, item, response) ==
    LET stepped ==
            IF response >= 4 THEN current_theta + 2000
            ELSE IF response <= 2 THEN current_theta - 2000
            ELSE current_theta + Mul(1000, (response - 3) * Scale)
        new_theta == Max(-3 * Scale, Min(3 * Scale, stepped))
        fisher_info == irt_fisher_information(new_theta, item)
        se == IF fisher_info > 0
              THEN RoundDiv(Scale * Scale, Sqrt(fisher_info)) ELSE Scale
    IN  [theta |-> new_theta, se |-> se]

(***************************************************************************)
(* GruenderAIEngine (pure_python_irt.py)                                   *)
(***************************************************************************)
safe_logistic(z) ==
    IF z > 500 * Scale THEN Scale
    ELSE IF z < -500 * Scale THEN 0
    ELSE Logistic(z)

\* a Python list index: negative indices count from the end
PyInRange(list, i) == -Len(list) <= i /\ i < Len(list)
PyIndex(list, i) == IF i >= 0 THEN list[i + 1] ELSE list[Len(list) + i + 1]

\* GruenderAIEngine.grm_probability(theta, discrimination,
\*                                  difficulty_thresholds, category)
grm_probability(theta, discrimination, difficulty_thresholds, category) ==
    IF category = 1
    THEN IF ~PyInRange(difficulty_thresholds, 0)
         THEN [kind |-> "value", value |-> 10]
         ELSE [kind |-> "value",
               value |-> safe_logistic(
                   -Mul(discrimination,
                        theta - PyIndex(difficulty_thresholds, 0)))]
    ELSE IF category = 5
    THEN IF ~PyInRange(difficulty_thresholds, -1)
         THEN [kind |-> "value", value |-> 10]
         ELSE [kind |-> "value",
               value |-> safe_logistic(
                   Mul(discrimination,
                       theta - PyIndex(difficulty_thresholds, -1)))]
    ELSE IF \/ ~PyInRange(difficulty_thresholds, category - 2)
            \/ ~PyInRange(difficulty_thresholds, category - 1)
         THEN [kind |-> "value", value |-> 10]
         ELSE LET p1 == safe_logistic(
                      Mul(discrimination,
                          theta - PyIndex(difficulty_thresholds, category - 2)))
                  p2 == safe_logistic(
                      Mul(discrimination,
                          theta - PyIndex(difficulty_thresholds, category - 1)))
              IN  [kind |-> "value", value |-> Max(10, p1 - p2)]

RECURSIVE FisherLoop(_, _, _, _)
FisherLoop(theta, discrimination, difficulty_thresholds, category) ==
    IF category > 5 THEN 0
    ELSE LET prob == grm_probability(theta, discrimination,
                                     difficulty_thresholds, category).value
         IN  (IF prob > 10
              THEN Mul(Mul(discrimination, discrimination),
                       Mul(prob, Scale - prob))
              ELSE 0)
             + FisherLoop(theta, discrimination, difficulty_thresholds,
                          category + 1)

\* GruenderAIEngine.fisher_information(theta, discrimination,
\*                                     difficulty_thresholds)
fisher_information(theta, discrimination, difficulty_thresholds) ==
    Max(FisherLoop(theta, discrimination, difficulty_thresholds, 1), 10)

\* the log-likelihood estimate_theta accumulates at theta_test over
\* zip(responses, items)
RECURSIVE LogLikelihood(_, _, _, _)
LogLikelihood(theta_test, responses, items, n) ==
    IF n > Min(Len(responses), Len(items)) THEN 0
    ELSE LET prob == grm_probability(theta_test, items[n].discrimination,
                                     items[n].difficulty_thresholds,
                                     responses[n]).value
         IN  (IF prob > 10 THEN Ln(prob) ELSE Ln(10))
             + LogLikelihood(theta_test, responses, items, n + 1)

\* the grid search of estimate_theta: theta_test = i * 0.1 for i in
\* range(-30, 31), a later point wins only when strictly better.  The
\* search starts from best_likelihood = -999999, written below as the
\* lowest fixed-point number the integers hold: every sum of logarithms of
\* a bounded response list lies above both
\* a grid search in which a later point wins on a tie as well
RECURSIVE GridSearch_last_wins(_, _, _, _, _)
GridSearch_last_wins(responses, items, i, best_theta, best_likelihood) ==
    IF i > 30 THEN best_theta
    ELSE LET log_likelihood == LogLikelihood(i * 1000, responses, items, 1)
         IN  IF log_likelihood >= best_likelihood
             THEN GridSearch_last_wins(responses, items, i + 1, i * 1000,
                                       log_likelihood)
             ELSE GridSearch_last_wins(responses, items, i + 1, best_theta,
                                       best_likelihood)

RECURSIVE GridSearch(_, _, _, _, _)
GridSearch(responses, items, i, best_theta, best_likelihood) ==
    IF i > 30 THEN best_theta
    ELSE LET log_likelihood == LogLikelihood(i * 1000, responses, items, 1)
         IN  IF log_likelihood > best_likelihood
             THEN GridSearch(responses, items, i + 1, i * 1000, log_likelihood)
             ELSE GridSearch(responses, items, i + 1, best_theta,
                             best_likelihood)

RECURSIVE TotalInfo(_, _, _)
TotalInfo(theta, items, n) ==
    IF n > Len(items) THEN 0
    ELSE fisher_information(theta, items[n].discrimination,
                            items[n].difficulty_thresholds)
         + TotalInfo(theta, items, n + 1)

\* an estimate that leaves out the test for no responses or no items
estimate_theta_no_default(responses, items) ==
    LET best_theta == GridSearch(responses, items, -30, 0, -2147480000)
        total_info == TotalInfo(best_theta, items, 1)
        standard_error == RoundDiv(Scale * Scale, Sqrt(Max(total_info, 1000)))
    IN  [theta |-> best_theta,
         se |-> Min(2 * Scale, Max(1000, standard_error))]

\* GruenderAIEngine.estimate_theta(responses, items)
estimate_theta(responses, items) ==
    IF Len(responses) = 0 \/ Len(items) = 0
    THEN [theta |-> 0, se |-> Scale]
    ELSE LET best_theta == GridSearch(responses, items, -30, 0, -2147480000)
             total_info == TotalInfo(best_theta, items, 1)
             standard_error ==
                 RoundDiv(Scale * Scale, Sqrt(Max(total_info, 1000)))
         IN  [theta |-> best_theta,
              se |-> Min(2 * Scale, Max(1000, standard_error))]

\* a loop in which a later candidate replaces the best one on a tie as well
RECURSIVE EngineSelectLoop_last_wins(_, _, _, _, _)
EngineSelectLoop_last_wins(current_theta, candidates, i, best_item, max_info) ==
    IF i > Len(candidates) THEN best_item
    ELSE LET info == fisher_information(current_theta,
                                        candidates[i].discrimination,
                                        candidates[i].difficulty_thresholds)
         IN  IF info >= max_info
             THEN EngineSelectLoop_last_wins(current_theta, candidates, i + 1,
                                             candidates[i], info)
             ELSE EngineSelectLoop_last_wins(current_theta, candidates, i + 1,
                                             best_item, max_info)

\* the loop of select_next_item over the candidates
RECURSIVE EngineSelectLoop(_, _, _, _, _)
EngineSelectLoop(current_theta, candidates, i, best_item, max_info) ==
    IF i > Len(candidates) THEN best_item
    ELSE LET info == fisher_information(current_theta,
                                        candidates[i].discrimination,
                                        candidates[i].difficulty_thresholds)
         IN  IF info > max_info
             THEN EngineSelectLoop(current_theta, candidates, i + 1,
                                   candidates[i], info)
             ELSE EngineSelectLoop(current_theta, candidates, i + 1,
                                   best_item, max_info)

\* a selection that forgets to leave out the used items
select_next_item_unfiltered(current_theta, available_items, used_items) ==
    IF Len(available_items) = 0 THEN None
    ELSE EngineSelectLoop(current_theta, available_items, 1, None, -Scale)

\* GruenderAIEngine.select_next_item(current_theta, available_items,
\*                                   used_items)
select_next_item(current_theta, available_items, used_items) ==
    IF Len(available_items) = 0 THEN None
    ELSE LET used_set == Range(used_items)
             candidates == SelectSeq(available_items,
                                     LAMBDA item : item.item_id \notin used_set)
         IN  IF Len(candidates) = 0 THEN None
             ELSE EngineSelectLoop(current_theta, candidates, 1, None, -Scale)

\* the item dicts DatabaseConnection.get_items_by_context("general") hands
\* to the engine (the sample items add_sample_items stores), in table order
ItemDict(item_id, dimension, discrimination, difficulty_thresholds) ==
    [item_id |-> item_id, dimension |-> dimension,
     discrimination |-> discrimination,
     difficulty_thresholds |-> difficulty_thresholds]

sample_items == <<
    ItemDict("INNOV_001", "innovativeness", 18500,
             <<-12000, -4000, 3000, 11000>>),
    ItemDict("RISK_001", "risk_taking", 21000,
             <<-8000, 2000, 9000, 17000>>),
    ItemDict("ACHV_001", "achievement_orientation", 19000,
             <<-10000, -2000, 5000, 13000>>),
    ItemDict("SELF_001", "self_efficacy", 17600,
             <<-13000, -5000, 2000, 10000>>),
    ItemDict("AUTO_001", "autonomy_orientation", 16500,
             <<-9000, -1000, 7000, 15000>>),
    ItemDict("PROACT_001", "proactiveness", 18200,
             <<-11000, -3000, 4000, 12000>>),
    ItemDict("COMPET_001", "competitive_aggressiveness", 17400,
             <<-8000, 1000, 8000, 16000>>) >>

(***************************************************************************)
(* Inputs and bounds                                                       *)
(***************************************************************************)
SessionIds == {"s1"}
\* two clients, each with a session of its own
PairSessionIds == {"s1", "s2"}
SessionIdInputs ==
    IF program = "pair" THEN PairSessionIds
    ELSE SessionIds \cup {"no_such_session"}
\* start_adaptive_assessment(business_context, target_se, max_items): the
\* default target 0.2 and a lax 1.2, the default ceiling 15 and a tight 2
StartInputs ==
    {<<"fintech", 2000, 15>>, <<"fintech", 12000, 15>>,
     <<"fintech", 2000, 2>>, <<"fintech", 12000, 2>>,
     <<"consulting", 2000, 2>>, <<"consulting", 12000, 15>>}
ResponseInputs == {2, 5, 7}

\* the item_id a client submits: the item it was given last, one fixed item
\* of the bank whether administered or not, or an id the bank does not hold
ItemIdInputs(session_id) ==
    LET administered ==
            IF session_id \in DOMAIN assessment_sessions
            THEN assessment_sessions[session_id].administered_items
            ELSE << >>
    IN  (IF Len(administered) > 0 THEN {administered[Len(administered)]} ELSE {})
        \cup {"risk_001", "no_such_item"}

\* submit_response is no longer called once a session holds this many responses
MaxResponses == 2

\* a client that answers one item again and again: the default session, the
\* answer 3 to innovation_001, up to this many times
MaxRepeatedResponses == 22
RepeatStartInputs == {<<"fintech", 2000, 15>>}
RepeatResponseInputs == {3}
RepeatItemIdInputs == {"innovation_001"}

\* two clients side by side: each starts a session with a ceiling of 2 items
\* and answers the item it was given last, up to this many times
MaxPairResponses == 1
PairStartInputs == {<<"fintech", 2000, 2>>, <<"consulting", 12000, 2>>}
PairResponseInputs == {5}
PairItemIdInputs(session_id) ==
    LET administered == assessment_sessions[session_id].administered_items
    IN  IF Len(administered) > 0 THEN {administered[Len(administered)]} ELSE {}

\* the end-to-end run: a session with the default target and a ceiling of at
\* least the 7 items of the bank; the client asks for an item only when it has
\* answered the last one, and answers each item once, the n-th with the n-th
\* value of the run [4, 2, 5, 3, 4, 5, 2] or with its mirror image in 1..5
ScenarioRun == <<4, 2, 5, 3, 4, 5, 2>>
ScenarioStartInputs ==
    {<<"fintech", 2000, 7>>, <<"fintech", 2000, 15>>,
     <<"consulting", 2000, 7>>, <<"consulting", 2000, 12>>}
ScenarioResponseInputs(session_id) ==
    LET n == Len(assessment_sessions[session_id].responses) + 1
    IN  IF n \in DOMAIN ScenarioRun
        THEN {ScenarioRun[n], 6 - ScenarioRun[n]} ELSE {}
ScenarioAnswered(session_id) ==
    Len(assessment_sessions[session_id].responses)
        = Len(assessment_sessions[session_id].administered_items)

\* the programs that run IntegratedGruenderAI
IntegratedPrograms == {"integrated", "repeat", "pair", "scenario"}
ResponseBound ==
    IF program = "repeat" THEN MaxRepeatedResponses
    ELSE IF program = "pair" THEN MaxPairResponses
    ELSE IF program = "scenario" THEN Len(item_bank)
    ELSE MaxResponses

\* the CAT loop over GruenderAIEngine is given the first n items of
\* sample_items, n up to EngineBankSize, and these answers
EngineBankSize == 2
EngineResponseInputs == {0, 1, 3, 5, 6}

\* AssessmentSession: the answers, and how many of them
SessionResponseInputs == {0, 3, 5}
MaxSessionResponses == 7

\* direct calls: theta from -3.0 to 3.0 in steps of 0.5 and four values far
\* outside (6.0 and 400.0, where a * (theta - b) passes 500), and the
\* categories
ThetaInputs == {i * 5000 : i \in -6..6}
               \cup {-400 * Scale, -6 * Scale, 6 * Scale, 400 * Scale}
CategoryInputs == {-1, 0, 1, 2, 3, 4, 5, 6}
ItemInputs == DOMAIN create_sample_item_bank

(***************************************************************************)
(* IntegratedGruenderAI: operations                                        *)
(***************************************************************************)
\* a session as start_adaptive_assessment makes it
NewSession(business_context, target_se, max_items) ==
    [business_context |-> business_context,
     target_se |-> target_se,
     max_items |-> max_items,
     current_item |-> 0,
     theta_estimates |-> [dim \in DimensionSet |-> 0],
     se_estimates |-> [dim \in DimensionSet |-> Scale],
     administered_items |-> << >>,
     responses |-> << >>,
     detected_frictions |-> << >>,
     is_complete |-> FALSE,
     completion_reason |-> "None",
     final_analysis |-> FALSE]

\* start_adaptive_assessment(user_id, business_context, target_se, max_items)
start_adaptive_assessment(business_context, target_se, max_items) ==
    /\ program \in IntegratedPrograms
    /\ \E session_id \in uuid_pool :
        /\ uuid_pool' = uuid_pool \ {session_id}
        /\ assessment_sessions' = assessment_sessions @@
              (session_id :> NewSession(business_context, target_se, max_items))
        /\ result' = Returned("start_adaptive_assessment", "session_id", session_id, 0)
    /\ session_analytics' =
          [session_analytics EXCEPT
              !.total_sessions = @ + 1,
              !.context_distribution[business_context] = @ + 1]
    /\ UNCHANGED <<program, engine, assessment_session, args>>

\* get_next_item(session_id) on a known session that is not complete: the
\* stopping rule, then the selection
get_next_item_active(session_id) ==
    LET session == assessment_sessions[session_id]
        decision == should_stop_assessment(session)
        stopped == [session EXCEPT
                       !.completion_reason = decision.completion_reason]
        available_items == AvailableItems(session)
        best_item == SelectLoop(session, available_items, 1, None, -Scale)
        administered ==
            [session EXCEPT
                !.administered_items = Append(@, best_item.item_id),
                !.current_item = @ + 1]
    IN  IF decision.stop
        THEN /\ assessment_sessions' =
                   [assessment_sessions EXCEPT
                       ![session_id] = CompletedSession(stopped)]
             /\ result' = CompletionResult("get_next_item", stopped)
        ELSE IF Len(available_items) = 0
        THEN /\ assessment_sessions' =
                   [assessment_sessions EXCEPT
                       ![session_id] = CompletedSession(session)]
             /\ result' = CompletionResult("get_next_item", session)
        ELSE IF best_item = None
        THEN /\ result' = Returned("get_next_item", "None", "", 0)
             /\ UNCHANGED assessment_sessions
        ELSE /\ assessment_sessions' =
                   [assessment_sessions EXCEPT
                       ![session_id] =
                           [administered EXCEPT
                               !.detected_frictions =
                                   monitor_real_time_friction(administered)]]
             /\ result' = Returned("get_next_item", "item", best_item.item_id, 0)

\* a get_next_item that does not look at is_complete
get_next_item_unchecked(session_id) ==
    /\ program \in IntegratedPrograms
    /\ IF session_id \notin DOMAIN assessment_sessions
       THEN /\ result' = Returned("get_next_item", "None", "", 0)
            /\ UNCHANGED assessment_sessions
       ELSE get_next_item_active(session_id)
    /\ UNCHANGED <<program, session_analytics, uuid_pool, engine,
                   assessment_session, args>>

\* get_next_item(session_id)
get_next_item(session_id) ==
    /\ program \in IntegratedPrograms
    /\ IF session_id \notin DOMAIN assessment_sessions
       THEN /\ result' = Returned("get_next_item", "None", "", 0)
            /\ UNCHANGED assessment_sessions
       ELSE IF assessment_sessions[session_id].is_complete
       THEN /\ result' = Returned("get_next_item", "None", "", 0)
            /\ UNCHANGED assessment_sessions
       ELSE get_next_item_active(session_id)
    /\ UNCHANGED <<program, session_analytics, uuid_pool, engine,
                   assessment_session, args>>

ItemOf(item_id) ==
    CHOOSE i \in DOMAIN item_bank :
        /\ item_bank[i].item_id = item_id
        /\ \A j \in 1..(i - 1) : item_bank[j].item_id # item_id

\* a submit_response that stores the response before it looks the item up
submit_response_storing_first(session_id, item_id, response) ==
    /\ program \in IntegratedPrograms
    /\ IF session_id \notin DOMAIN assessment_sessions
       THEN /\ result' = Returned("submit_response", "error", "Session not found", 0)
            /\ UNCHANGED assessment_sessions
       ELSE IF item_id \notin ItemIds
       THEN /\ result' = Returned("submit_response", "error", "Item not found", 0)
            /\ assessment_sessions' =
                  [assessment_sessions EXCEPT
                      ![session_id].responses =
                          Append(@, [item_id |-> item_id,
                                     dimension |-> "None",
                                     response |-> response])]
       ELSE
       LET session == assessment_sessions[session_id]
           item == item_bank[ItemOf(item_id)]
           recorded ==
               [session EXCEPT
                   !.responses = Append(@, [item_id |-> item_id,
                                            dimension |-> item.dimension,
                                            response |-> response])]
       IN  /\ Len(session.responses) < ResponseBound
           /\ assessment_sessions' =
                 [assessment_sessions EXCEPT
                     ![session_id] = update_theta_estimate(recorded, item, response)]
           /\ result' = Returned("submit_response", "response_recorded", item_id, 0)
    /\ UNCHANGED <<program, session_analytics, uuid_pool, engine,
                   assessment_session, args>>

\* submit_response(session_id, item_id, response)
submit_response(session_id, item_id, response) ==
    /\ program \in IntegratedPrograms
    /\ IF session_id \notin DOMAIN assessment_sessions
       THEN /\ result' = Returned("submit_response", "error", "Session not found", 0)
            /\ UNCHANGED assessment_sessions
       ELSE IF item_id \notin ItemIds
       THEN /\ result' = Returned("submit_response", "error", "Item not found", 0)
            /\ UNCHANGED assessment_sessions
       ELSE
       LET session == assessment_sessions[session_id]
           item == item_bank[ItemOf(item_id)]
           recorded ==
               [session EXCEPT
                   !.responses = Append(@, [item_id |-> item_id,
                                            dimension |-> item.dimension,
                                            response |-> response])]
       IN  /\ Len(session.responses) < ResponseBound
           /\ assessment_sessions' =
                 [assessment_sessions EXCEPT
                     ![session_id] = update_theta_estimate(recorded, item, response)]
           /\ result' = Returned("submit_response", "response_recorded", item_id, 0)
    /\ UNCHANGED <<program, session_analytics, uuid_pool, engine,
                   assessment_session, args>>

\* a complete_assessment that closes every session of the store
complete_assessment_all(session_id) ==
    /\ program \in IntegratedPrograms
    /\ IF session_id \notin DOMAIN assessment_sessions
       THEN /\ result' = Returned("complete_assessment", "error", "Session not found", 0)
            /\ UNCHANGED assessment_sessions
       ELSE /\ assessment_sessions' =
                  [id \in DOMAIN assessment_sessions |->
                      CompletedSession(assessment_sessions[id])]
            /\ result' = CompletionResult("complete_assessment",
                                          assessment_sessions[session_id])
    /\ UNCHANGED <<program, session_analytics, uuid_pool, engine,
                   assessment_session, args>>

\* complete_assessment(session_id)
complete_assessment(session_id) ==
    /\ program \in IntegratedPrograms
    /\ IF session_id \notin DOMAIN assessment_sessions
       THEN /\ result' = Returned("complete_assessment", "error", "Session not found", 0)
            /\ UNCHANGED assessment_sessions
       ELSE /\ assessment_sessions' =
                  [assessment_sessions EXCEPT
                      ![session_id] = CompletedSession(@)]
            /\ result' = CompletionResult("complete_assessment",
                                          assessment_sessions[session_id])
    /\ UNCHANGED <<program, session_analytics, uuid_pool, engine,
                   assessment_session, args>>

(***************************************************************************)
(* A CAT loop over GruenderAIEngine: select, administer, answer, estimate  *)
(***************************************************************************)
\* the items of available_items that were administered, in that order
AdministeredItems(available_items, used_items) ==
    [n \in DOMAIN used_items |->
        available_items[CHOOSE i \in DOMAIN available_items :
                            available_items[i].item_id = used_items[n]]]

\* one call of select_next_item; the item it returns is added to used_items
engine_select_next_item ==
    /\ program = "engine"
    /\ Len(engine.responses) = Len(engine.used_items)
    /\ LET best_item == select_next_item(engine.current_theta,
                                         engine.available_items,
                                         engine.used_items)
       IN  IF best_item = None
           THEN /\ result' = Returned("select_next_item", "None", "", 0)
                /\ UNCHANGED engine
           ELSE /\ result' = Returned("select_next_item", "item",
                                      best_item.item_id, 0)
                /\ engine' = [engine EXCEPT
                                 !.used_items = Append(@, best_item.item_id)]
    /\ UNCHANGED <<program, assessment_sessions, session_analytics, uuid_pool,
                   assessment_session, args>>

\* the loop's first estimate: estimate_theta before any answer was given,
\* with no responses and the whole bank as items
engine_initial_estimate ==
    /\ program = "engine"
    /\ Len(engine.responses) = 0
    /\ LET estimate == estimate_theta(engine.responses, engine.available_items)
       IN  /\ engine' = [engine EXCEPT !.current_theta = estimate.theta,
                                       !.standard_error = estimate.se]
           /\ result' = Returned("estimate_theta", "value", "", estimate.theta)
    /\ UNCHANGED <<program, assessment_sessions, session_analytics, uuid_pool,
                   assessment_session, args>>

\* the answer to the item selected last, and estimate_theta over all answers
engine_estimate_theta(response) ==
    /\ program = "engine"
    /\ Len(engine.responses) < Len(engine.used_items)
    /\ LET responses == Append(engine.responses, response)
           items == AdministeredItems(engine.available_items, engine.used_items)
           estimate == estimate_theta(responses, items)
       IN  /\ engine' = [engine EXCEPT !.responses = responses,
                                       !.current_theta = estimate.theta,
                                       !.standard_error = estimate.se]
           /\ result' = Returned("estimate_theta", "value", "", estimate.theta)
    /\ UNCHANGED <<program, assessment_sessions, session_analytics, uuid_pool,
                   assessment_session, args>>

(***************************************************************************)
(* AssessmentSession (assessment_session.py)                               *)
(***************************************************************************)
session_dimensions == {"innovativeness", "risk_taking",
                       "achievement_orientation", "autonomy_orientation",
                       "proactiveness", "locus_of_control", "self_efficacy"}

SessionItem(item_id) ==
    create_sample_item_bank[CHOOSE i \in DOMAIN create_sample_item_bank :
                                create_sample_item_bank[i].item_id = item_id]

\* a select_next_question that always picks at random
select_next_question_choices_random(session) ==
    {item.item_id :
        item \in {create_sample_item_bank[i] :
                     i \in {j \in DOMAIN create_sample_item_bank :
                               create_sample_item_bank[j].item_id
                                   \notin Range(session.administered_items)}}}

\* the items select_next_question may return: the first available item of a
\* dimension not asked yet, else any available item (random.choice)
select_next_question_choices(session) ==
    LET available_items ==
            SelectSeq(create_sample_item_bank,
                      LAMBDA item : item.item_id \notin Range(session.administered_items))
        dimensions_asked ==
            {create_sample_item_bank[i].dimension :
                i \in {j \in DOMAIN create_sample_item_bank :
                          create_sample_item_bank[j].item_id
                              \in Range(session.administered_items)}}
        fresh == {i \in DOMAIN available_items :
                     available_items[i].dimension \notin dimensions_asked}
    IN  IF Len(available_items) = 0 THEN {}
        ELSE IF fresh # {}
        THEN {available_items[CHOOSE i \in fresh : \A j \in fresh : i <= j].item_id}
        ELSE {available_items[i].item_id : i \in DOMAIN available_items}

\* select_next_question()
select_next_question ==
    /\ program = "session"
    /\ LET choices == select_next_question_choices(assessment_session)
       IN  IF choices = {}
           THEN result' = Returned("select_next_question", "None", "", 0)
           ELSE \E item_id \in choices :
                   result' = Returned("select_next_question", "item", item_id, 0)
    /\ UNCHANGED <<program, assessment_sessions, session_analytics, uuid_pool,
                   engine, assessment_session, args>>

\* a process_response that keeps only the latest response
process_response_replacing(response) ==
    /\ program = "session"
    /\ result.op = "select_next_question" /\ result.kind = "item"
    /\ Len(assessment_session.user_responses) < MaxSessionResponses
    /\ LET item == SessionItem(result.value)
           current_theta == assessment_session.theta_estimates[item.dimension]
           updated == update_theta(current_theta, item, response)
       IN  assessment_session' =
               [assessment_session EXCEPT
                   !.user_responses = <<<<item.item_id, response>>>>,
                   !.administered_items = Append(@, item.item_id),
                   !.theta_estimates[item.dimension] = updated.theta]
    /\ result' = Returned("process_response", "None", "", 0)
    /\ UNCHANGED <<program, assessment_sessions, session_analytics, uuid_pool,
                   engine, args>>

\* process_response(item, response), for the item select_next_question
\* returned last
process_response(response) ==
    /\ program = "session"
    /\ result.op = "select_next_question" /\ result.kind = "item"
    /\ Len(assessment_session.user_responses) < MaxSessionResponses
    /\ LET item == SessionItem(result.value)
           current_theta == assessment_session.theta_estimates[item.dimension]
           updated == update_theta(current_theta, item, response)
       IN  assessment_session' =
               [assessment_session EXCEPT
                   !.user_responses = Append(@, <<item.item_id, response>>),
                   !.administered_items = Append(@, item.item_id),
                   !.theta_estimates[item.dimension] = updated.theta]
    /\ result' = Returned("process_response", "None", "", 0)
    /\ UNCHANGED <<program, assessment_sessions, session_analytics, uuid_pool,
                   engine, args>>

(***************************************************************************)
(* Direct calls of the engines' functions: the process makes one call with *)
(* the arguments it was started with                                       *)
(***************************************************************************)
\* IRTCATEngine.grm_probability(theta, item, response)
call_irt_grm_probability ==
    /\ program = "calls"
    /\ result.op = "__init__"
    /\ args.item \in DOMAIN create_sample_item_bank
    /\ LET r == irt_grm_probability(args.theta,
                                    create_sample_item_bank[args.item],
                                    args.response)
       IN  result' = Returned("IRTCATEngine.grm_probability", r.kind, "", r.value)
    /\ UNCHANGED <<program, assessment_sessions, session_analytics, uuid_pool,
                   engine, assessment_session, args>>

\* GruenderAIEngine.grm_probability(theta, discrimination,
\*                                  difficulty_thresholds, category)
call_grm_probability ==
    /\ program = "calls"
    /\ result.op = "__init__"
    /\ args.item \in DOMAIN sample_items
    /\ LET r == grm_probability(args.theta,
                                sample_items[args.item].discrimination,
                                sample_items[args.item].difficulty_thresholds,
                                args.response)
       IN  result' = Returned("GruenderAIEngine.grm_probability", r.kind, "",
                              r.value)
    /\ UNCHANGED <<program, assessment_sessions, session_analytics, uuid_pool,
                   engine, assessment_session, args>>

\* IRTCATEngine.update_theta(current_theta, item, response)
call_update_theta ==
    /\ program = "calls"
    /\ result.op = "__init__"
    /\ args.item \in DOMAIN create_sample_item_bank
    /\ result' = Returned("IRTCATEngine.update_theta", "value", "",
                          update_theta(args.theta,
                                       create_sample_item_bank[args.item],
                                       args.response).theta)
    /\ UNCHANGED <<program, assessment_sessions, session_analytics, uuid_pool,
                   engine, assessment_session, args>>

\* IntegratedGruenderAI.update_theta_estimate(session, item, response) on a
\* session whose estimate for the item's dimension is args.theta
call_update_theta_estimate ==
    /\ program = "calls"
    /\ result.op = "__init__"
    /\ args.item \in DOMAIN item_bank
    /\ LET item == item_bank[args.item]
           session == [NewSession("fintech", 2000, 15) EXCEPT
                          !.theta_estimates[item.dimension] = args.theta]
       IN  result' = Returned("IntegratedGruenderAI.update_theta_estimate",
                              "value", "",
                              update_theta_estimate(session, item, args.response)
                                  .theta_estimates[item.dimension])
    /\ UNCHANGED <<program, assessment_sessions, session_analytics, uuid_pool,
                   engine, assessment_session, args>>

\* IRTCATEngine.fisher_information(theta, item)
call_irt_fisher_information ==
    /\ program = "calls"
    /\ result.op = "__init__"
    /\ args.item \in DOMAIN create_sample_item_bank
    /\ result' = Returned("IRTCATEngine.fisher_information", "value", "",
                          irt_fisher_information(
                              args.theta, create_sample_item_bank[args.item]))
    /\ UNCHANGED <<program, assessment_sessions, session_analytics, uuid_pool,
                   engine, assessment_session, args>>

\* GruenderAIEngine.fisher_information(theta, discrimination,
\*                                     difficulty_thresholds)
call_fisher_information ==
    /\ program = "calls"
    /\ result.op = "__init__"
    /\ args.item \in DOMAIN sample_items
    /\ result' = Returned("GruenderAIEngine.fisher_information", "value", "",
                          fisher_information(
                              args.theta, sample_items[args.item].discrimination,
                              sample_items[args.item].difficulty_thresholds))
    /\ UNCHANGED <<program, assessment_sessions, session_analytics, uuid_pool,
                   engine, assessment_session, args>>

\* IntegratedGruenderAI.calculate_fisher_information(theta, item); the
\* argument of math.exp stays below its overflow for every theta of ThetaInputs
call_calculate_fisher_information ==
    /\ program = "calls"
    /\ result.op = "__init__"
    /\ args.item \in DOMAIN item_bank
    /\ result' = Returned("IntegratedGruenderAI.calculate_fisher_information",
                          "value", "",
                          calculate_fisher_information(args.theta,
                                                       item_bank[args.item]))
    /\ UNCHANGED <<program, assessment_sessions, session_analytics, uuid_pool,
                   engine, assessment_session, args>>

\* the arguments of the direct call of select_next_item: all of sample_items
\* as available_items, the ids of the first args.item - 1 of them as used_items
CallUsedItems ==
    [n \in 1..Min(args.item - 1, Len(sample_items)) |-> sample_items[n].item_id]

\* GruenderAIEngine.select_next_item(current_theta, available_items,
\*                                   used_items)
call_select_next_item ==
    /\ program = "calls"
    /\ result.op = "__init__"
    /\ args.item \in 1..(Len(sample_items) + 1)
    /\ LET best_item == select_next_item(args.theta, sample_items, CallUsedItems)
       IN  result' = IF best_item = None
                     THEN Returned("GruenderAIEngine.select_next_item",
                                   "None", "", 0)
                     ELSE Returned("GruenderAIEngine.select_next_item",
                                   "item", best_item.item_id, 0)
    /\ UNCHANGED <<program, assessment_sessions, session_analytics, uuid_pool,
                   engine, assessment_session, args>>

(***************************************************************************)
(* Specification                                                           *)
(***************************************************************************)
Programs ==
    {"integrated", "repeat", "pair", "scenario", "engine", "session", "calls"}

Init ==
    /\ program \in Programs
    /\ assessment_sessions = << >>
    /\ session_analytics =
          [total_sessions |-> 0,
           context_distribution |->
               [fintech |-> 0, consulting |-> 0, restaurant |-> 0, ecommerce |-> 0]]
    /\ uuid_pool = IF program = "pair" THEN PairSessionIds ELSE SessionIds
    /\ \E n \in 0..(IF program = "engine" THEN EngineBankSize ELSE 0) :
          engine = [available_items |-> SubSeq(sample_items, 1, n),
                    used_items |-> << >>,
                    responses |-> << >>,
                    current_theta |-> 0,
                    standard_error |-> Scale]
    /\ assessment_session =
          [user_responses |-> << >>,
           theta_estimates |-> [dimension \in session_dimensions |-> 0],
           administered_items |-> << >>]
    /\ IF program = "calls"
       THEN args \in [theta : ThetaInputs, item : ItemInputs,
                      response : CategoryInputs]
       ELSE args = [theta |-> 0, item |-> 1, response |-> 0]
    /\ result = Returned("__init__", "None", "", 0)

Next ==
    \/ \E input \in IF program = "repeat" THEN RepeatStartInputs
                      ELSE IF program = "pair" THEN PairStartInputs
                      ELSE IF program = "scenario" THEN ScenarioStartInputs
                      ELSE StartInputs :
          start_adaptive_assessment(input[1], input[2], input[3])
    \/ \E session_id \in SessionIdInputs :
          /\ program # "scenario"
          /\ get_next_item(session_id)
    \/ \E session_id \in DOMAIN assessment_sessions :
          /\ program = "scenario"
          /\ ScenarioAnswered(session_id)
          /\ get_next_item(session_id)
    \/ \E session_id \in DOMAIN assessment_sessions :
          \E response \in ScenarioResponseInputs(session_id) :
              /\ program = "scenario"
              /\ ~ScenarioAnswered(session_id)
              /\ submit_response(
                     session_id,
                     assessment_sessions[session_id].administered_items[
                         Len(assessment_sessions[session_id].administered_items)],
                     response)
    \/ \E session_id \in SessionIdInputs, response \in ResponseInputs :
          \E item_id \in ItemIdInputs(session_id) :
              /\ program = "integrated"
              /\ submit_response(session_id, item_id, response)
    \/ \E session_id \in SessionIds, response \in RepeatResponseInputs,
          item_id \in RepeatItemIdInputs :
          /\ program = "repeat"
          /\ submit_response(session_id, item_id, response)
    \/ \E session_id \in DOMAIN assessment_sessions,
          response \in PairResponseInputs :
          \E item_id \in PairItemIdInputs(session_id) :
              /\ program = "pair"
              /\ submit_response(session_id, item_id, response)
    \/ \E session_id \in SessionIdInputs :
          /\ program # "scenario"
          /\ complete_assessment(session_id)
    \/ engine_select_next_item
    \/ engine_initial_estimate
    \/ \E response \in EngineResponseInputs : engine_estimate_theta(response)
    \/ select_next_question
    \/ \E response \in SessionResponseInputs : process_response(response)
    \/ call_irt_grm_probability
    \/ call_grm_probability
    \/ call_update_theta
    \/ call_update_theta_estimate
    \/ call_select_next_item
    \/ call_irt_fisher_information
    \/ call_fisher_information
    \/ call_calculate_fisher_information

Spec == Init /\ [][Next]_vars

(***************************************************************************)
(* Properties                                                              *)
(***************************************************************************)
NoDuplicates(seq) ==
    \A i, j \in DOMAIN seq : seq[i] = seq[j] => i = j

\* the trait thresholds of the stopping rule are met, whatever the item count
PrecisionMet(session) ==
    should_stop_assessment([session EXCEPT !.current_item = 0,
                                           !.max_items = 1]).stop

\* C1: no item is ever selected twice.  An item returned by get_next_item is
\* the last entry of its session's administered_items and occurs nowhere
\* before it, an item returned by select_next_item is the last entry of
\* used_items and occurs nowhere before it; so neither list ever holds an
\* item_id twice.
C1_NoItemSelectedTwice ==
    /\ \A session_id \in DOMAIN assessment_sessions :
           NoDuplicates(assessment_sessions[session_id].administered_items)
    /\ (result.op = "get_next_item" /\ result.kind = "item") =>
           \E session_id \in DOMAIN assessment_sessions :
               LET administered_items ==
                       assessment_sessions[session_id].administered_items
                   n == Len(administered_items)
               IN  /\ n > 0
                   /\ administered_items[n] = result.value
                   /\ \A i \in 1..(n - 1) : administered_items[i] # result.value
    /\ NoDuplicates(engine.used_items)
    /\ (result.op = "select_next_item" /\ result.kind = "item") =>
           LET n == Len(engine.used_items)
           IN  /\ n > 0
               /\ engine.used_items[n] = result.value
               /\ \A i \in 1..(n - 1) : engine.used_items[i] # result.value

\* get_next_item has just returned the last item of the bank: all seven
\* items are administered, each once
C1_Witness ==
    /\ result.op = "get_next_item" /\ result.kind = "item"
    /\ \E session_id \in DOMAIN assessment_sessions :
           Len(assessment_sessions[session_id].administered_items)
               = Len(item_bank)

\* C2: the stopping rule never stops a session with reason
\* precision_criteria_met while fewer than 8 items are administered.
C2_MinimumItemsFloor ==
    \A session_id \in DOMAIN assessment_sessions :
        LET session == assessment_sessions[session_id]
        IN  session.completion_reason = "precision_criteria_met"
                => session.current_item >= 8

\* C3: whenever current_item >= max_items, should_stop_assessment stops with
\* max_items_reached, whether or not the precision criteria are met; so a
\* session that stopped for precision was below its ceiling.
C3_MaxItemsFirst ==
    \A session_id \in DOMAIN assessment_sessions :
        LET session == assessment_sessions[session_id]
        IN  /\ session.current_item >= session.max_items =>
                   should_stop_assessment(session) =
                       [stop |-> TRUE, completion_reason |-> "max_items_reached"]
            /\ session.completion_reason = "precision_criteria_met" =>
                   session.current_item < session.max_items

\* a session stopped by get_next_item at its ceiling, with reason
\* max_items_reached, while its precision criteria are met as well
C3_Witness ==
    /\ result.op = "get_next_item"
    /\ \E session_id \in DOMAIN assessment_sessions :
           LET session == assessment_sessions[session_id]
           IN  /\ session.is_complete
               /\ session.completion_reason = "max_items_reached"
               /\ session.current_item >= session.max_items
               /\ PrecisionMet(session)

\* C4: COMPLETE is terminal.  A complete session stays complete in every
\* step, and get_next_item on it returns None and administers nothing.
C4_CompleteIsTerminal ==
    [][\A session_id \in DOMAIN assessment_sessions :
          assessment_sessions[session_id].is_complete =>
              /\ session_id \in DOMAIN assessment_sessions'
              /\ assessment_sessions'[session_id].is_complete
              /\ assessment_sessions'[session_id].administered_items
                     = assessment_sessions[session_id].administered_items
              /\ assessment_sessions'[session_id].current_item
                     = assessment_sessions[session_id].current_item
              /\ get_next_item(session_id) => result'.kind = "None"]_vars

\* get_next_item was called on a complete session that still had items left
\* below its ceiling, and returned None
C4_Witness ==
    /\ result.op = "get_next_item" /\ result.kind = "None"
    /\ \E session_id \in DOMAIN assessment_sessions :
           LET session == assessment_sessions[session_id]
           IN  /\ session.is_complete
               /\ session.current_item < session.max_items
               /\ Len(AvailableItems(session)) > 0
               /\ ~PrecisionMet(session)

\* C5: once the stopping rule has completed a session, no step changes its
\* theta_estimates or its se_estimates.
C5_EstimatesFrozen ==
    [][\A session_id \in DOMAIN assessment_sessions :
          (/\ assessment_sessions[session_id].is_complete
           /\ assessment_sessions[session_id].completion_reason # "None") =>
              /\ assessment_sessions'[session_id].theta_estimates
                     = assessment_sessions[session_id].theta_estimates
              /\ assessment_sessions'[session_id].se_estimates
                     = assessment_sessions[session_id].se_estimates]_vars

\* C6: a get_next_item that finds every item of the bank administered,
\* on a session the stopping rule lets continue, completes the session with
\* completion_reason item_pool_exhausted.
C6_PoolExhaustedReason ==
    [][\A session_id \in DOMAIN assessment_sessions :
          (/\ get_next_item(session_id)
           /\ ~assessment_sessions[session_id].is_complete
           /\ ~should_stop_assessment(assessment_sessions[session_id]).stop
           /\ Len(AvailableItems(assessment_sessions[session_id])) = 0) =>
              /\ assessment_sessions'[session_id].is_complete
              /\ assessment_sessions'[session_id].completion_reason
                     = "item_pool_exhausted"]_vars

\* the candidate pool of select_next_item
CandidatePool(available_items, used_items) ==
    {available_items[i] : i \in {j \in DOMAIN available_items :
                                    available_items[j].item_id
                                        \notin Range(used_items)}}

\* C7: select_next_item returns None exactly when the candidate pool
\* (available_items without the used items) is empty, and a member of the
\* pool otherwise.
C7_NoneIffPoolEmpty ==
    LET pool == CandidatePool(engine.available_items, engine.used_items)
        next_item == select_next_item(engine.current_theta,
                                      engine.available_items, engine.used_items)
    IN  /\ next_item = None <=> pool = {}
        /\ next_item # None => next_item \in pool
        /\ (result.op = "select_next_item" /\ result.kind = "None") =>
               pool = {}

\* select_next_item returned None after every item of a non-empty bank
\* was used
C7_Witness ==
    /\ result.op = "select_next_item" /\ result.kind = "None"
    /\ Len(engine.available_items) > 0
    /\ Len(engine.used_items) = Len(engine.available_items)

\* C8: a response outside 1..5 is rejected: no session ever holds a
\* recorded response whose value is outside 1..5.
C8_InvalidResponseRejected ==
    /\ \A session_id \in DOMAIN assessment_sessions :
           \A i \in DOMAIN assessment_sessions[session_id].responses :
               assessment_sessions[session_id].responses[i].response \in 1..5
    /\ \A i \in DOMAIN assessment_session.user_responses :
           assessment_session.user_responses[i][2] \in 1..5

\* C9: grm_probability called with a category outside 1..5 ends in an
\* error, never in a probability value.
C9_InvalidCategoryIsError ==
    (/\ result.op \in {"IRTCATEngine.grm_probability",
                       "GruenderAIEngine.grm_probability"}
     /\ args.response \notin 1..5) => result.kind = "error"

\* C10: every theta estimate lies in [-3.0, 3.0]: the estimates of the
\* integrated sessions and of AssessmentSession, the engine's current theta,
\* and the value each update or estimate call returns.
C10_ThetaInRange ==
    LET InRange(theta) == -3 * Scale <= theta /\ theta <= 3 * Scale
    IN  /\ \A session_id \in DOMAIN assessment_sessions :
               \A dim \in DimensionSet :
                   InRange(assessment_sessions[session_id].theta_estimates[dim])
        /\ \A dimension \in session_dimensions :
               InRange(assessment_session.theta_estimates[dimension])
        /\ InRange(engine.current_theta)
        /\ result.op \in {"IRTCATEngine.update_theta",
                          "IntegratedGruenderAI.update_theta_estimate",
                          "estimate_theta"} => InRange(result.number)

\* update_theta stepped upwards from theta = 3.0 and returned 3.0
C10_Witness ==
    /\ result.op = "IRTCATEngine.update_theta"
    /\ args.theta = 3 * Scale /\ args.response = 5
    /\ result.number = 3 * Scale

\* C11: the standard error lies within [0.1, 2.0]: the one estimate_theta
\* returned for a non-empty response set, and every se_estimates entry of
\* every integrated session.
C11_StandardErrorInRange ==
    LET InRange(se) == 1000 <= se /\ se <= 2 * Scale
    IN  /\ Len(engine.responses) > 0 => InRange(engine.standard_error)
        /\ \A session_id \in DOMAIN assessment_sessions :
               \A dim \in DimensionSet :
                   InRange(assessment_sessions[session_id].se_estimates[dim])

\* C12: estimate_theta with no responses returns theta = 0.0 and standard
\* error = 1.0, whatever the items, and a session start_adaptive_assessment
\* has just made has theta = 0.0 and standard error = 1.0 in every dimension.
C12_ZeroResponseDefault ==
    /\ estimate_theta(<< >>, engine.available_items)
           = [theta |-> 0, se |-> Scale]
    /\ (result.op = "estimate_theta" /\ Len(engine.responses) = 0) =>
           /\ result.kind = "value" /\ result.number = 0
           /\ engine.current_theta = 0
           /\ engine.standard_error = Scale
    /\ result.op = "start_adaptive_assessment" =>
           /\ result.value \in DOMAIN assessment_sessions
           /\ \A dim \in DimensionSet :
                  /\ assessment_sessions[result.value].theta_estimates[dim] = 0
                  /\ assessment_sessions[result.value].se_estimates[dim] = Scale

\* estimate_theta was called with no responses and a bank that holds items
C12_Witness ==
    /\ result.op = "estimate_theta"
    /\ Len(engine.responses) = 0
    /\ Len(engine.available_items) > 0

\* selected is the candidate the selection must return: the first one, in
\* list order, whose score no candidate exceeds
IsFirstMaximal(selected, candidates, Score(_)) ==
    LET best == Score(selected)
    IN  \E i \in DOMAIN candidates :
            /\ candidates[i] = selected
            /\ \A j \in DOMAIN candidates :
                   /\ Score(candidates[j]) <= best
                   /\ j < i => Score(candidates[j]) < best

\* the candidates and the score of the direct call of select_next_item
CallCandidates ==
    SelectSeq(sample_items,
              LAMBDA item : item.item_id \notin Range(CallUsedItems))

CallScore(item) ==
    fisher_information(args.theta, item.discrimination,
                       item.difficulty_thresholds)

\* C13: the selector returns a candidate of maximal score, the first in
\* list order when several tie: Fisher information at the current theta in
\* select_next_item, weighted information plus bonuses in get_next_item (on
\* the sessions get_next_item selects for: not complete, not stopping).
C13_FirstMaximalSelected ==
    /\ LET candidates ==
               SelectSeq(engine.available_items,
                         LAMBDA item : item.item_id \notin Range(engine.used_items))
           Score(item) == fisher_information(engine.current_theta,
                                             item.discrimination,
                                             item.difficulty_thresholds)
       IN  Len(candidates) > 0 =>
               IsFirstMaximal(
                   select_next_item(engine.current_theta,
                                    engine.available_items, engine.used_items),
                   candidates, Score)
    /\ (/\ result.op = "GruenderAIEngine.select_next_item"
        /\ Len(CallCandidates) > 0) =>
           /\ result.kind = "item"
           /\ \E i \in DOMAIN CallCandidates :
                  /\ CallCandidates[i].item_id = result.value
                  /\ IsFirstMaximal(CallCandidates[i], CallCandidates,
                                    CallScore)
    /\ \A session_id \in DOMAIN assessment_sessions :
           LET session == assessment_sessions[session_id]
               candidates == AvailableItems(session)
               Score(item) == total_information(session, item)
           IN  (/\ ~session.is_complete
                /\ ~should_stop_assessment(session).stop
                /\ Len(candidates) > 0) =>
                   IsFirstMaximal(
                       SelectLoop(session, candidates, 1, None, -Scale),
                       candidates, Score)

\* select_next_item returned the first of several candidates that tie for
\* the maximal Fisher information
C13_Witness ==
    /\ result.op = "GruenderAIEngine.select_next_item"
    /\ result.kind = "item"
    /\ \E i, j \in DOMAIN CallCandidates :
           /\ i < j
           /\ CallCandidates[i].item_id = result.value
           /\ CallScore(CallCandidates[j]) = CallScore(CallCandidates[i])

\* the log-likelihood of the engine's responses at grid point i * 0.1
EngineLogLikelihood(i) ==
    LogLikelihood(i * 1000, engine.responses,
                  AdministeredItems(engine.available_items, engine.used_items),
                  1)

\* C14: the theta estimate_theta returned is a point of the grid -3.0, -2.9,
\* ..., 3.0 of maximal log-likelihood, and the smallest such point.
C14_FirstMaximalGridPoint ==
    Len(engine.responses) > 0 =>
        LET i == engine.current_theta \div 1000
            best_likelihood == EngineLogLikelihood(i)
        IN  /\ i \in -30..30 /\ engine.current_theta = i * 1000
            /\ \A j \in -30..30 : EngineLogLikelihood(j) <= best_likelihood
            /\ \A j \in -30..(i - 1) : EngineLogLikelihood(j) < best_likelihood

\* estimate_theta returned -3.0, the smallest grid point, for responses whose
\* log-likelihood is the same at every grid point (a response 6 has
\* probability 0.001 at every theta)
C14_Witness ==
    /\ result.op = "estimate_theta"
    /\ Len(engine.responses) > 0
    /\ engine.current_theta = -30 * 1000
    /\ \A j \in -30..30 : EngineLogLikelihood(j) = EngineLogLikelihood(-30)

\* the theta IRTCATEngine.update_theta ends at when it is applied response
\* by response, from the n-th response on
RECURSIVE IncrementalTheta(_, _, _, _)
IncrementalTheta(theta, responses, items, n) ==
    IF n > Len(responses) THEN theta
    ELSE IncrementalTheta(update_theta(theta, items[n], responses[n]).theta,
                          responses, items, n + 1)

\* C15: for responses to items of one dimension, the incremental update
\* applied response by response from theta = 0 ends at the theta the batch
\* estimate (estimate_theta) returns for the same responses.
C15_IncrementalEqualsBatch ==
    LET items == AdministeredItems(engine.available_items, engine.used_items)
    IN  (/\ result.op = "estimate_theta"
         /\ Len(engine.responses) > 0
         /\ \A n \in DOMAIN engine.responses :
                /\ items[n].dimension = items[1].dimension
                /\ engine.responses[n] \in 1..5) =>
            engine.current_theta
                = IncrementalTheta(0, engine.responses, items, 1)

\* the flooring tolerance of a sum over five categories: 5 * 0.001
FlooringTolerance == 5 * 10

\* sum of IRTCATEngine.grm_probability over the categories 1..5
IrtCategorySum(theta, item) ==
    irt_grm_probability(theta, item, 1).value
    + irt_grm_probability(theta, item, 2).value
    + irt_grm_probability(theta, item, 3).value
    + irt_grm_probability(theta, item, 4).value
    + irt_grm_probability(theta, item, 5).value

\* sum of GruenderAIEngine.grm_probability over the categories 1..5
CategorySum(theta, item) ==
    LET P(c) == grm_probability(theta, item.discrimination,
                                item.difficulty_thresholds, c).value
    IN  P(1) + P(2) + P(3) + P(4) + P(5)

\* C16: for every theta and every item, the probabilities of the categories
\* 1..5 sum to 1.0 within the flooring tolerance (5 * 0.001), in
\* IRTCATEngine.grm_probability and in GruenderAIEngine.grm_probability.
C16_ProbabilitiesSumToOne ==
    /\ result.op = "IRTCATEngine.grm_probability" =>
           Abs(IrtCategorySum(args.theta, create_sample_item_bank[args.item])
               - Scale) <= FlooringTolerance
    /\ result.op = "GruenderAIEngine.grm_probability" =>
           Abs(CategorySum(args.theta, sample_items[args.item]) - Scale)
               <= FlooringTolerance

\* C17: for every theta, item and category in 1..5, grm_probability returns
\* at least 0.001, in IRTCATEngine and in GruenderAIEngine, the extreme
\* categories 1 and 5 included.
C17_ProbabilityFloor ==
    (/\ result.op \in {"IRTCATEngine.grm_probability",
                       "GruenderAIEngine.grm_probability"}
     /\ args.response \in 1..5) => result.number >= 10

\* C18: for every theta, the thetas beyond the +-500 guard included, and
\* every item, the Fisher information is at least a positive epsilon (here
\* the smallest positive fixed-point value, 0.0001), never 0, in
\* IRTCATEngine.fisher_information, GruenderAIEngine.fisher_information and
\* IntegratedGruenderAI.calculate_fisher_information.
C18_InformationFloor ==
    result.op \in {"IRTCATEngine.fisher_information",
                   "GruenderAIEngine.fisher_information",
                   "IntegratedGruenderAI.calculate_fisher_information"} =>
        result.number > 0

IsPrefix(before, after) ==
    /\ Len(before) <= Len(after)
    /\ \A n \in DOMAIN before : after[n] = before[n]

\* C19: the response history is append-only: across every step the response
\* list of each integrated session, and the user_responses of the
\* AssessmentSession, have their previous value as a prefix.
C19_ResponsesAppendOnly ==
    [][/\ \A session_id \in DOMAIN assessment_sessions :
              /\ session_id \in DOMAIN assessment_sessions'
              /\ IsPrefix(assessment_sessions[session_id].responses,
                          assessment_sessions'[session_id].responses)
       /\ IsPrefix(assessment_session.user_responses,
                   assessment_session'.user_responses)]_vars

\* an AssessmentSession holding two responses has processed a third one
C19_Witness ==
    /\ result.op = "process_response"
    /\ Len(assessment_session.user_responses) >= 3

\* the part of a session the estimates and the stopping rule live in
EstimateState(session) ==
    [theta_estimates |-> session.theta_estimates,
     se_estimates |-> session.se_estimates,
     administered_items |-> session.administered_items,
     responses |-> session.responses,
     is_complete |-> session.is_complete,
     completion_reason |-> session.completion_reason]

\* what get_next_item makes of a session that is the only one of its store
AloneGetNextItem(session) ==
    LET decision == should_stop_assessment(session)
        stopped == [session EXCEPT
                       !.completion_reason = decision.completion_reason]
        available_items == AvailableItems(session)
        best_item == SelectLoop(session, available_items, 1, None, -Scale)
        administered ==
            [session EXCEPT
                !.administered_items = Append(@, best_item.item_id),
                !.current_item = @ + 1]
    IN  IF session.is_complete THEN session
        ELSE IF decision.stop THEN CompletedSession(stopped)
        ELSE IF Len(available_items) = 0 THEN CompletedSession(session)
        ELSE IF best_item = None THEN session
        ELSE [administered EXCEPT
                 !.detected_frictions = monitor_real_time_friction(administered)]

\* what submit_response makes of a session that is the only one of its store
AloneSubmitResponse(session, item_id, response) ==
    LET item == item_bank[ItemOf(item_id)]
    IN  update_theta_estimate(
            [session EXCEPT
                !.responses = Append(@, [item_id |-> item_id,
                                         dimension |-> item.dimension,
                                         response |-> response])],
            item, response)

\* C20: sessions are independent: a get_next_item, submit_response or
\* complete_assessment on a session A leaves the theta_estimates,
\* se_estimates, administered_items, responses, is_complete and
\* completion_reason of every other session B as they were, and makes of A
\* what it makes of A when A is the only session. (The item bank is the
\* definition item_bank: no operation assigns to it.)
C20_SessionsIndependent ==
    [][\A A \in DOMAIN assessment_sessions :
          \A B \in DOMAIN assessment_sessions \ {A} :
              LET before == assessment_sessions[A]
                  Other ==
                      /\ B \in DOMAIN assessment_sessions'
                      /\ EstimateState(assessment_sessions'[B])
                             = EstimateState(assessment_sessions[B])
              IN  /\ (result'.op = "get_next_item" /\ get_next_item(A)) =>
                         /\ Other
                         /\ assessment_sessions'[A] = AloneGetNextItem(before)
                  /\ (/\ result'.op = "complete_assessment"
                      /\ complete_assessment(A)) =>
                         /\ Other
                         /\ assessment_sessions'[A] = CompletedSession(before)
                  /\ \A item_id \in ItemIds, response \in PairResponseInputs :
                         (/\ result'.op = "submit_response"
                          /\ result'.value = item_id
                          /\ submit_response(A, item_id, response)) =>
                             /\ Other
                             /\ assessment_sessions'[A]
                                    = AloneSubmitResponse(before, item_id,
                                                          response)
      ]_vars

\* two sessions of different contexts side by side, each with an item
\* administered and answered, the latest operation a response to one of them
C20_Witness ==
    /\ program = "pair"
    /\ result.op = "submit_response"
    /\ DOMAIN assessment_sessions = PairSessionIds
    /\ assessment_sessions["s1"].business_context
           # assessment_sessions["s2"].business_context
    /\ \A B \in PairSessionIds :
           /\ Len(assessment_sessions[B].administered_items) > 0
           /\ Len(assessment_sessions[B].responses) > 0

\* C21: in the end-to-end run (the 7-item bank, max_items >= 7, the default
\* target_se, every item get_next_item returns answered once with a value in
\* 1..5) no item is administered twice, every theta stays within [-3, 3] and
\* every standard error within [0.1, 2.0], and the run ends with exactly 7
\* distinct item_ids administered, each answered.
C21_EndToEndRun ==
    program = "scenario" =>
        \A session_id \in DOMAIN assessment_sessions :
            LET session == assessment_sessions[session_id]
            IN  /\ NoDuplicates(session.administered_items)
                /\ \A dim \in DimensionSet :
                       /\ -3 * Scale <= session.theta_estimates[dim]
                       /\ session.theta_estimates[dim] <= 3 * Scale
                       /\ 1000 <= session.se_estimates[dim]
                       /\ session.se_estimates[dim] <= 2 * Scale
                /\ session.is_complete =>
                       /\ Len(session.administered_items) = 7
                       /\ Range(session.administered_items) = ItemIds
                       /\ Len(session.responses) = 7

\* the run [4, 2, 5, 3, 4, 5, 2] has been fed and the session is complete
C21_Witness ==
    /\ program = "scenario"
    /\ \E session_id \in DOMAIN assessment_sessions :
           LET session == assessment_sessions[session_id]
           IN  /\ session.is_complete
               /\ session.max_items > 7
               /\ [n \in DOMAIN session.responses |->
                      session.responses[n].response] = ScenarioRun

\* C22: get_next_item returns an item of the item bank or None, and nothing
\* else, also on the call in which the stopping rule fires or the pool is
\* found empty.
C22_ItemOrNone ==
    result.op = "get_next_item" =>
        \/ result.kind = "None"
        \/ result.kind = "item" /\ result.value \in ItemIds

\* C23: the interior cumulative values IRTCATEngine.grm_probability builds,
\* C_j = F(a * (theta - b_j)), are ordered C_1 <= C_2 <= C_3 <= C_4, so that
\* no category difference is negative before flooring.
C23_CumulativeOrdered ==
    result.op = "IRTCATEngine.grm_probability" =>
        LET cumulative_probs ==
                IrtCumulativeProbs(args.theta, create_sample_item_bank[args.item])
        IN  \A j \in 2..4 : cumulative_probs[j] <= cumulative_probs[j + 1]

\* the dimensions of the first n items the AssessmentSession administered
DimensionsAsked(n) ==
    {SessionItem(assessment_session.administered_items[m]).dimension :
        m \in 1..n}

\* the dimensions that have an item of the bank not among the first n
\* administered items
DimensionsLeft(n) ==
    {create_sample_item_bank[i].dimension :
        i \in {j \in DOMAIN create_sample_item_bank :
                  create_sample_item_bank[j].item_id
                      \notin {assessment_session.administered_items[m] :
                                 m \in 1..n}}}

\* C24: when the items select_next_question returns are the items passed to
\* process_response, a dimension is asked a second time only when no
\* dimension that still has an unadministered item is unasked.
C24_CoverageBeforeRepeat ==
    \A n \in DOMAIN assessment_session.administered_items :
        SessionItem(assessment_session.administered_items[n]).dimension
            \in DimensionsAsked(n - 1) =>
                DimensionsLeft(n - 1) \subseteq DimensionsAsked(n - 1)

\* seven items have been asked and answered, one of each dimension, though
\* the bank holds a second item of three of them
C24_Witness ==
    /\ result.op = "process_response"
    /\ Len(assessment_session.administered_items) = 7
    /\ DimensionsAsked(7) = session_dimensions
    /\ DimensionsLeft(7) # {}

\* C25: selection is reproducible: the item select_next_question returned is
\* the only item it can return for this administered list, also after every
\* dimension has been covered once.
C25_SelectionReproducible ==
    (result.op = "select_next_question" /\ result.kind = "item") =>
        select_next_question_choices(assessment_session) = {result.value}

\* C26: a response touches its own dimension only: a submit_response that
\* records a response to an item of dimension d leaves the theta and the
\* standard error of every other dimension as they were, in every session,
\* and a process_response leaves the theta of every other dimension as it was.
C26_OwnDimensionOnly ==
    [][/\ (result'.op = "submit_response"
              /\ result'.kind = "response_recorded") =>
              LET d == item_bank[ItemOf(result'.value)].dimension
              IN  \A session_id \in DOMAIN assessment_sessions :
                      \A dim \in DimensionSet \ {d} :
                          /\ assessment_sessions'[session_id].theta_estimates[dim]
                                 = assessment_sessions[session_id]
                                       .theta_estimates[dim]
                          /\ assessment_sessions'[session_id].se_estimates[dim]
                                 = assessment_sessions[session_id]
                                       .se_estimates[dim]
       /\ result'.op = "process_response" =>
              LET d == SessionItem(result.value).dimension
              IN  \A dim \in session_dimensions \ {d} :
                      assessment_session'.theta_estimates[dim]
                          = assessment_session.theta_estimates[dim]
      ]_vars

\* a session holds estimates that responses have moved in two dimensions,
\* its other dimensions still at theta 0.0 and standard error 1.0
C26_Witness ==
    /\ result.op = "submit_response"
    /\ \E session_id \in DOMAIN assessment_sessions :
           LET session == assessment_sessions[session_id]
               moved == {dim \in DimensionSet :
                            /\ session.se_estimates[dim] < Scale
                            /\ session.theta_estimates[dim] # 0}
           IN  /\ Cardinality(moved) = 2
               /\ \A dim \in DimensionSet \ moved :
                      /\ session.se_estimates[dim] = Scale
                      /\ session.theta_estimates[dim] = 0

\* C27: in every state of an integrated session current_item is the length
\* of administered_items, administered_items holds no item_id twice, each of
\* its entries is an item_id of the item bank, and current_item <= max_items.
C27_CounterConsistency ==
    \A session_id \in DOMAIN assessment_sessions :
        LET session == assessment_sessions[session_id]
        IN  /\ session.current_item = Len(session.administered_items)
            /\ NoDuplicates(session.administered_items)
            /\ Range(session.administered_items) \subseteq ItemIds
            /\ session.current_item <= session.max_items

\* get_next_item was called on a session that had administered max_items
\* items, fewer than the bank holds, and administered no further one
C27_Witness ==
    /\ result.op = "get_next_item"
    /\ result.kind \notin {"item", "None"}
    /\ \E session_id \in DOMAIN assessment_sessions :
           LET session == assessment_sessions[session_id]
           IN  /\ session.current_item = session.max_items
               /\ session.max_items < Len(item_bank)
               /\ session.completion_reason = "max_items_reached"

\* the client loop on its own: the two clients side by side, or the
\* end-to-end run, where every get_next_item comes after the answer to the
\* item before
TermInit == Init /\ program \in {"pair", "scenario"}

\* the client has a call of get_next_item to make: the session is not
\* complete (and, in the end-to-end run, the last item is answered)
ActiveSession(session_id) ==
    /\ session_id \in DOMAIN assessment_sessions
    /\ ~assessment_sessions[session_id].is_complete
    /\ program = "scenario" => ScenarioAnswered(session_id)

\* get_next_item is called on a session that is not complete
get_next_item_on_active(session_id) ==
    /\ ActiveSession(session_id)
    /\ get_next_item(session_id)

\* the client of the end-to-end run answers the item it was given
scenario_submit_response(session_id) ==
    /\ program = "scenario"
    /\ session_id \in DOMAIN assessment_sessions
    /\ ~ScenarioAnswered(session_id)
    /\ \E response \in ScenarioResponseInputs(session_id) :
           submit_response(
               session_id,
               assessment_sessions[session_id].administered_items[
                   Len(assessment_sessions[session_id].administered_items)],
               response)

TermNext ==
    \/ \E input \in IF program = "pair" THEN PairStartInputs
                      ELSE ScenarioStartInputs :
          start_adaptive_assessment(input[1], input[2], input[3])
    \/ \E session_id \in PairSessionIds : get_next_item_on_active(session_id)
    \/ \E session_id \in DOMAIN assessment_sessions :
          /\ assessment_sessions[session_id].is_complete
          /\ get_next_item(session_id)
    \/ \E session_id \in DOMAIN assessment_sessions :
          scenario_submit_response(session_id)
    \/ \E session_id \in DOMAIN assessment_sessions,
          response \in PairResponseInputs :
          \E item_id \in PairItemIdInputs(session_id) :
              /\ program = "pair"
              /\ submit_response(session_id, item_id, response)
    \/ \E session_id \in DOMAIN assessment_sessions :
          /\ program = "pair"
          /\ complete_assessment(session_id)

\* the client keeps calling get_next_item on a session that is not complete,
\* and the client of the end-to-end run keeps answering: weak fairness of
\* both, the one of get_next_item_on_active written out with ActiveSession
\* for its ENABLED (such a call always changes the session)
TermSpec ==
    /\ TermInit
    /\ [][TermNext]_vars
    /\ \A session_id \in PairSessionIds :
           /\ \/ []<>(~ActiveSession(session_id))
              \/ []<><<get_next_item_on_active(session_id)>>_vars
           /\ WF_vars(scenario_submit_response(session_id))

\* C28: every session terminates: a get_next_item on a session that is not
\* complete either completes it or administers one more item, of which there
\* are never more than min(max_items, size of the item bank), and a session
\* on which get_next_item keeps being called is eventually complete.
C28_SessionTerminates ==
    /\ [][\A session_id \in DOMAIN assessment_sessions :
              (/\ ~assessment_sessions[session_id].is_complete
               /\ result'.op = "get_next_item"
               /\ get_next_item(session_id)) =>
                  \/ assessment_sessions'[session_id].is_complete
                  \/ /\ Len(assessment_sessions'[session_id].administered_items)
                            = Len(assessment_sessions[session_id]
                                      .administered_items) + 1
                     /\ Len(assessment_sessions'[session_id].administered_items)
                            <= Min(assessment_sessions[session_id].max_items,
                                   Len(item_bank))]_vars
    /\ \A session_id \in PairSessionIds :
           (session_id \in DOMAIN assessment_sessions)
               ~> (/\ session_id \in DOMAIN assessment_sessions
                   /\ assessment_sessions[session_id].is_complete)

\* a session was completed by the call of get_next_item that came after
\* min(max_items, size of the item bank) administered items
C28_Witness ==
    /\ result.op = "get_next_item"
    /\ result.kind \notin {"item", "None"}
    /\ \E session_id \in DOMAIN assessment_sessions :
           LET session == assessment_sessions[session_id]
           IN  /\ session.is_complete
               /\ session.max_items > Len(item_bank)
               /\ Len(session.administered_items) = Len(item_bank)

\* C29: a rejected submission changes nothing: submit_response with an
\* unknown session_id, or with an item_id the item bank does not hold,
\* returns an error and leaves every session as it was.
C29_RejectedChangesNothing ==
    [][result'.op = "submit_response" =>
          LET Rejected ==
                  /\ result'.kind = "error"
                  /\ assessment_sessions' = assessment_sessions
          IN  /\ \A item_id \in ItemIdInputs("no_such_session"),
                    response \in ResponseInputs :
                    submit_response("no_such_session", item_id, response)
                        => Rejected
              /\ \A session_id \in DOMAIN assessment_sessions,
                    response \in ResponseInputs :
                    submit_response(session_id, "no_such_item", response)
                        => Rejected]_vars

\* a submission for an item the bank does not hold was rejected on a session
\* that holds an administered item and a response
C29_Witness ==
    /\ result.op = "submit_response"
    /\ result.kind = "error"
    /\ result.value = "Item not found"
    /\ \E session_id \in DOMAIN assessment_sessions :
           /\ Len(assessment_sessions[session_id].administered_items) > 0
           /\ Len(assessment_sessions[session_id].responses) > 0

\* C30: responses correspond to administered items: in every state of an
\* integrated session every recorded response is to an item_id of
\* administered_items, no item_id has two recorded responses, and there are
\* no more responses than administered items.
C30_ResponsesAdministered ==
    \A session_id \in DOMAIN assessment_sessions :
        LET session == assessment_sessions[session_id]
        IN  /\ \A n \in DOMAIN session.responses :
                   session.responses[n].item_id
                       \in Range(session.administered_items)
            /\ \A m, n \in DOMAIN session.responses :
                   session.responses[m].item_id = session.responses[n].item_id
                       => m = n
            /\ Len(session.responses) <= Len(session.administered_items)
====
